---- MODULE Spec2Model ----
(***************************************************************************)
(* Model of src/script.py: a batch script that lists repositories, looks   *)
(* for workflow files under WORKFLOW_PATH on each default branch, replaces *)
(* SEARCH_STRING by REPLACE_STRING in them and writes them back through    *)
(* the hosting platform's content-update call.                             *)
(*                                                                         *)
(* Text (file contents, paths, the commit message) is a sequence of        *)
(* one-character strings, so that `in`, str.replace, str.strip and         *)
(* str.endswith are computed character by character.                       *)
(***************************************************************************)
EXTENDS Integers, Sequences, FiniteSets, TLC

(***************************************************************************)
(* Bounds of the model.                                                    *)
(***************************************************************************)
\* occurrences of SEARCH_STRING in one generated file content
MaxOccur == 2
\* API calls, decodings or rate-limit checks that fail, over all runs
MaxFailures == 2
\* invocations of main(), one after the other
MaxRuns == 2
\* writes by somebody else to a file of a repository (SpecExt only)
MaxExternal == 1

(***************************************************************************)
(* Configuration constants, script.py lines 12-16.                         *)
(***************************************************************************)
WORKFLOW_PATH ==
  <<"a", "n", "s", "i", "b", "l", "e", "_", "a", "w", "s", "/",
    "d", "e", "f", "a", "u", "l", "t">>

SEARCH_STRING ==
  <<"a", "w", "s", "-", "a", "c", "t", "i", "o", "n", "s", "/",
    "a", "m", "a", "z", "o", "n", "-", "e", "c", "s", "-",
    "d", "e", "p", "l", "o", "y", "-", "t", "a", "s", "k", "-",
    "d", "e", "f", "i", "n", "i", "t", "i", "o", "n", "@", "v", "1">>

\* a replacement that still contains the search string ("@v1" -> "@v1.2")
REPLACE_STRING_keeps_search == SEARCH_STRING \o <<".", "2">>

REPLACE_STRING ==
  <<"a", "w", "s", "-", "a", "c", "t", "i", "o", "n", "s", "/",
    "a", "m", "a", "z", "o", "n", "-", "e", "c", "s", "-",
    "d", "e", "p", "l", "o", "y", "-", "t", "a", "s", "k", "-",
    "d", "e", "f", "i", "n", "i", "t", "i", "o", "n", "@", "v", "2">>

CREATE_PR == FALSE

\* The constants are edited in place to retarget the script; the run is
\* modelled for the path as committed and for a one-segment path, and (in
\* SpecPr) with CREATE_PR switched on.
WorkflowPaths == {WORKFLOW_PATH, <<"w", "o", "r", "k", "f", "l", "o", "w", "s">>}

(***************************************************************************)
(* Python string operations used by the script.                            *)
(***************************************************************************)
\* s[i:i+len(sub)] == sub, 1-based
MatchAt(s, sub, i) ==
  /\ i + Len(sub) - 1 <= Len(s)
  /\ s[i] = sub[1]
  /\ SubSeq(s, i, i + Len(sub) - 1) = sub

\* `sub in s` (sub non-empty), script.py line 131
Contains(s, sub) == \E i \in 1..(Len(s) - Len(sub) + 1) : MatchAt(s, sub, i)

\* s.find(sub): the least index of an occurrence, 0 when there is none
Find(s, sub) ==
  IF Contains(s, sub)
  THEN CHOOSE i \in 1..(Len(s) - Len(sub) + 1) :
         /\ MatchAt(s, sub, i)
         /\ \A k \in 1..(i - 1) : ~MatchAt(s, sub, k)
  ELSE 0

\* s.replace(old, new, 1): only the first occurrence
Replace_first(s, old, new) ==
  LET k == Find(s, old)
  IN IF k = 0 THEN s
     ELSE SubSeq(s, 1, k - 1) \o new \o SubSeq(s, k + Len(old), Len(s))

\* s.replace(old, new): the occurrences found left to right, not overlapping
RECURSIVE Replace(_, _, _)
Replace(s, old, new) ==
  LET k == Find(s, old)
  IN IF k = 0 THEN s
     ELSE SubSeq(s, 1, k - 1) \o new
            \o Replace(SubSeq(s, k + Len(old), Len(s)), old, new)

\* s.strip(ch) for a one-character ch
RECURSIVE Strip(_, _)
Strip(s, ch) ==
  IF s = <<>> THEN s
  ELSE IF s[1] = ch THEN Strip(Tail(s), ch)
  ELSE IF s[Len(s)] = ch THEN Strip(SubSeq(s, 1, Len(s) - 1), ch)
  ELSE s

\* s.endswith(suffix)
EndsWith(s, suffix) ==
  /\ Len(suffix) <= Len(s)
  /\ SubSeq(s, Len(s) - Len(suffix) + 1, Len(s)) = suffix

\* the suffixes accepted by get_workflow_files, script.py line 110
WorkflowSuffixes == {<<".", "y", "m", "l">>, <<".", "y", "a", "m", "l">>}

\* f"Update ECS task definition from {SEARCH_STRING} to {REPLACE_STRING}"
CommitMessage ==
  <<"U", "p", "d", "a", "t", "e", " ", "E", "C", "S", " ", "t", "a", "s", "k", " ",
    "d", "e", "f", "i", "n", "i", "t", "i", "o", "n", " ", "f", "r", "o", "m", " ">>
    \o SEARCH_STRING \o <<" ", "t", "o", " ">> \o REPLACE_STRING

(***************************************************************************)
(* The hosting platform: two repositories, each with one branch (its       *)
(* default branch) and its workflow files directly under the configured    *)
(* path.                                                                   *)
(***************************************************************************)
RepoNames == {"r1", "r2"}

DefaultBranch == [r \in RepoNames |-> IF r = "r1" THEN "main" ELSE "master"]

BuildYaml == <<"b", "u", "i", "l", "d", ".", "y", "a", "m", "l">>
DeployYml == <<"d", "e", "p", "l", "o", "y", ".", "y", "m", "l">>
NotesTxt == <<"n", "o", "t", "e", "s", ".", "t", "x", "t">>
SubDir == <<"s", "u", "b">>
Readme == <<"R", "E", "A", "D", "M", "E", ".", "m", "d">>

\* the children of the workflow directory, in the order the platform lists them
DirChildren(r) ==
  IF r = "r1"
  THEN << [name |-> BuildYaml, type |-> "file"], [name |-> DeployYml, type |-> "file"],
          [name |-> NotesTxt, type |-> "file"], [name |-> SubDir, type |-> "dir"] >>
  ELSE << [name |-> DeployYml, type |-> "file"] >>

\* the files that have a stored content: <<repository, file name>>
Files ==
  {<<r, DirChildren(r)[k].name>> : r \in {"r1"}, k \in 1..3} \cup {<<"r2", DeployYml>>}

\* the part of a path before its first "/"
FirstSegment(p) ==
  IF \E i \in 1..Len(p) : p[i] = "/"
  THEN SubSeq(p, 1, (CHOOSE i \in 1..Len(p) :
                        p[i] = "/" /\ \A k \in 1..(i - 1) : p[k] # "/") - 1)
  ELSE p

\* those of them that get_workflow_files selects
WorkflowFiles == {f \in Files : f[2] # NotesTxt}

\* the blob hash of a content: determined by the content, and different
\* contents have different hashes
Sha(content) == <<"blob", Len(content), content>>

(***************************************************************************)
(* File contents the model starts from and external writers write.         *)
(***************************************************************************)
Line(x) == <<"u", "s", "e", "s", ":", " ">> \o x \o <<"\n">>

RECURSIVE Rep(_, _)
Rep(k, unit) == IF k = 0 THEN <<>> ELSE unit \o Rep(k - 1, unit)

\* SEARCH_STRING cut short: a start of the search string that is not one
SearchHead == SubSeq(SEARCH_STRING, 1, 12)
NearMiss == SubSeq(SEARCH_STRING, 1, Len(SEARCH_STRING) - 1) \o <<"3">>

Shapes ==
  { [head |-> <<>>, unit |-> Line(SEARCH_STRING), tail |-> <<>>],
    [head |-> <<>>, unit |-> Line(SEARCH_STRING), tail |-> Line(REPLACE_STRING)],
    [head |-> SearchHead, unit |-> SEARCH_STRING, tail |-> NearMiss] }

Doc(k, sh) == sh.head \o Rep(k, sh.unit) \o sh.tail

Contents == {Doc(k, sh) : k \in 0..MaxOccur, sh \in Shapes}

\* the file of the end-to-end example: one line using the old pin
Example == Line(SEARCH_STRING)

\* what another writer leaves in a file: the example again, the new pin
\* alone, or the old pin with a line added
ExternalContents ==
  {Example, Line(REPLACE_STRING), Line(SEARCH_STRING) \o Line(REPLACE_STRING)}

(***************************************************************************)
(* State.                                                                  *)
(***************************************************************************)
VARIABLES
  cfgPath,              \* WORKFLOW_PATH of this run
  cfgCreatePr,          \* CREATE_PR of this run
  stored,               \* platform: content of each file on the default branch
  original,             \* stored, as it was when the current run started
  pc,                   \* main(): "start", "repo" (top of the repository loop),
                        \*         "file" (top of the file loop), "done"
  repos,                \* main(): repos
  i,                    \* main(): 1-based position of the repository loop
  branch,               \* main(): default_branch
  workflow_files,       \* main(): workflow_files
  j,                    \* main(): 1-based position of the file loop
  repo_updated,         \* main(): repo_updated
  total_repos,          \* main(): total_repos
  repos_with_workflows, \* main(): repos_with_workflows
  repos_updated,        \* main(): repos_updated
  log,                  \* the records handed to logging
  calls,                \* history: the repo.update_file calls of this run
  visited,              \* history: the repository iterations of this run
  passed,               \* history: the update_workflow_file calls of this run
  listing,              \* history: the API answers the enumeration was given
  failures,             \* number of failed API steps so far
  run,                  \* number of the current invocation of main()
  prevUpdated,          \* files written successfully by the previous run
  extWrites             \* number of external writes so far

vars ==
  <<cfgPath, cfgCreatePr, stored, original, pc, repos, i, branch, workflow_files, j,
    repo_updated, total_repos, repos_with_workflows, repos_updated, log, calls,
    visited, passed, listing, failures, run, prevUpdated, extWrites>>

config == <<cfgPath, cfgCreatePr>>
loopVars == <<i, branch, workflow_files, j, repo_updated>>
counters == <<total_repos, repos_with_workflows, repos_updated>>

NoListing == [org |-> [status |-> "none", repos |-> <<>>],
              user |-> [status |-> "none", repos |-> <<>>]]

\* the script's variables when main() is entered
ScriptStart ==
  /\ pc = "start"
  /\ repos = <<>>
  /\ i = 1
  /\ branch = "main"
  /\ workflow_files = <<>>
  /\ j = 1
  /\ repo_updated = FALSE
  /\ total_repos = 0
  /\ repos_with_workflows = 0
  /\ repos_updated = 0
  /\ log = {}
  /\ calls = <<>>
  /\ visited = <<>>
  /\ passed = <<>>
  /\ listing = NoListing

\* the platform and the configuration before the first run
World(paths, flags, contents) ==
  /\ cfgPath \in paths
  /\ cfgCreatePr \in flags
  /\ stored \in [Files -> contents \cup {Example}]
  /\ \E focus \in WorkflowFiles : \A f \in Files \ {focus} : stored[f] = Example
  /\ original = stored
  /\ ScriptStart
  /\ failures = 0
  /\ run = 1
  /\ prevUpdated = {}
  /\ extWrites = 0

\* CREATE_PR as committed, either path, one file with any content
Init == World(WorkflowPaths, {CREATE_PR}, Contents)

\* CREATE_PR switched on
InitPr == World(WorkflowPaths, {~CREATE_PR}, {Example})

\* a path under which the files are found, one file with the most occurrences
InitFound ==
  World(WorkflowPaths \ {WORKFLOW_PATH}, {CREATE_PR}, {Doc(MaxOccur, sh) : sh \in Shapes})

\* the same, every file holding the example
InitExample == World(WorkflowPaths \ {WORKFLOW_PATH}, {CREATE_PR}, {Example})

(***************************************************************************)
(* The platform's API, as the script calls it.  `out` is what happens to   *)
(* the request itself: "ok", "404" (GithubException with status 404) or    *)
(* "error" (any other exception).                                          *)
(***************************************************************************)
Outcomes == {"ok", "404", "error"}

\* repo.get_contents(path, ref=ref): the answer's status and entries; a ref
\* or a path the repository does not have is a 404
GetContents(r, path, ref, out, wp, st) ==
  IF out # "ok" THEN [status |-> out, entries |-> <<>>]
  ELSE IF ref # DefaultBranch[r] THEN [status |-> "404", entries |-> <<>>]
  ELSE IF Strip(path, "/") = <<>>
  THEN [status |-> "ok",
        entries |-> << [type |-> "dir", path |-> FirstSegment(Strip(wp, "/"))],
                       [type |-> "file", path |-> Readme] >>]
  ELSE IF Strip(path, "/") = Strip(wp, "/")
  THEN [status |-> "ok",
        entries |-> [k \in 1..Len(DirChildren(r)) |->
                       LET c == DirChildren(r)[k]
                       IN [type |-> c.type,
                           name |-> c.name,
                           path |-> Strip(wp, "/") \o <<"/">> \o c.name,
                           content |-> IF c.type = "file" THEN st[<<r, c.name>>] ELSE <<>>,
                           sha |-> IF c.type = "file" THEN Sha(st[<<r, c.name>>])
                                   ELSE <<>>]]]
  ELSE [status |-> "404", entries |-> <<>>]

\* repo.update_file(path, message, content, sha, branch=branch): the write is
\* accepted when the request goes through, the branch exists and sha is the
\* hash of the file as stored now; then the file holds the new content
UpdateFile(r, name, content, sha, ref, out, st) ==
  LET ok == out = "ok" /\ ref = DefaultBranch[r] /\ sha = Sha(st[<<r, name>>])
  IN [ok |-> ok,
      stored |-> IF ok THEN [st EXCEPT ![<<r, name>>] = content] ELSE st]

(***************************************************************************)
(* The functions of script.py.  Each returns what the Python function      *)
(* returns together with the records it logs.                              *)
(***************************************************************************)
Rec(level, msg, r, path) == [level |-> level, msg |-> msg, repo |-> r, path |-> path]

\* every failure is logged as an error
FailureLevel_error(status) == "ERROR"

\* the handlers of has_workflow_directory and get_workflow_files: a 404 is
\* logged with logging.info, anything else with logging.error
FailureLevel(status) == IF status = "404" THEN "INFO" ELSE "ERROR"

\* no deduplication
Dedup_none(s) == s

\* list({repo.full_name: repo for repo in all_repos}.values()): one entry per
\* full name, at the place of its first occurrence
RECURSIVE Dedup(_)
Dedup(s) ==
  IF s = <<>> THEN <<>>
  ELSE LET init == Dedup(SubSeq(s, 1, Len(s) - 1))
           last == s[Len(s)]
       IN IF \E k \in 1..Len(init) : init[k] = last THEN init ELSE Append(init, last)

\* [repo for repo in user.get_repos() if repo.permissions.admin], by full name
AdminRepos(userRepos) ==
  LET kept == SelectSeq(userRepos, LAMBDA u : u.admin)
  IN [k \in 1..Len(kept) |-> kept[k].full_name]

\* lst.org, lst.user: what g.get_organization(ORG_NAME).get_repos() and
\* g.get_user().get_repos() answer.  status "404" is a GithubException,
\* "error" any other exception.
get_organization_repositories(lst) ==
  IF lst.org.status = "error"
  THEN [repos |-> <<>>, log |-> {Rec("ERROR", "repositories_error", "", <<>>)}]
  ELSE LET repositories == IF lst.org.status = "ok" THEN lst.org.repos ELSE <<>>
           orgLog == IF lst.org.status = "ok" THEN {}
                     ELSE {Rec("WARNING", "organization_fallback", "", <<>>)}
       IN IF lst.user.status # "ok"
          THEN [repos |-> <<>>,
                log |-> orgLog \cup {Rec("ERROR", "repositories_error", "", <<>>)}]
          ELSE [repos |-> Dedup(repositories \o AdminRepos(lst.user.repos)),
                log |-> orgLog]

get_default_branch(r, out) ==
  IF out = "ok" THEN [branch |-> DefaultBranch[r], log |-> {}]
  ELSE [branch |-> "main", log |-> {Rec("ERROR", "default_branch_error", r, <<>>)}]

\* out "error" also stands for check_rate_limit raising
has_workflow_directory(r, ref, out, wp, st) ==
  LET resp == GetContents(r, <<"/">>, ref, out, wp, st)
  IN IF resp.status = "ok"
     THEN IF \E k \in 1..Len(resp.entries) :
               /\ resp.entries[k].type = "dir"
               /\ resp.entries[k].path = Strip(wp, "/")
          THEN [result |-> TRUE, status |-> resp.status,
                log |-> {Rec("INFO", "directory_found", r, <<>>)}]
          ELSE [result |-> FALSE, status |-> resp.status,
                log |-> {Rec("INFO", "no_directory", r, <<>>)}]
     ELSE [result |-> FALSE, status |-> resp.status,
           log |-> {Rec(FailureLevel(resp.status), "directory_failed", r, <<>>)}]

get_workflow_files(r, ref, out, wp, st) ==
  LET resp == GetContents(r, wp, ref, out, wp, st)
      found == SelectSeq(resp.entries,
                 LAMBDA c : c.type = "file"
                            /\ \E suf \in WorkflowSuffixes : EndsWith(c.path, suf))
  IN IF resp.status = "ok"
     THEN [files |-> found, status |-> resp.status,
           log |-> {Rec("INFO", "found_file", r, found[k].path) : k \in 1..Len(found)}]
     ELSE [files |-> <<>>, status |-> resp.status,
           log |-> {Rec(FailureLevel(resp.status), "files_failed", r, <<>>)}]

\* the hash of the file as stored at the time of the write
ShaForUpdate_fresh(r, wf, st) == Sha(st[<<r, wf.name>>])

\* the sha argument of repo.update_file: workflow_file.sha, as it was fetched
ShaForUpdate(r, wf, st) == wf.sha

\* a test that takes every content for a match
HasMatch_always(content) == TRUE

\* `SEARCH_STRING in content`, script.py line 131
HasMatch(content) == Contains(content, SEARCH_STRING)

\* pre: check_rate_limit and the decoding; upd: the update request.
\* ret is the value returned, raised tells that an exception was caught.
update_workflow_file(r, wf, ref, pre, upd, st) ==
  IF pre # "ok"
  THEN [ret |-> FALSE, raised |-> TRUE, calls |-> <<>>, stored |-> st,
        log |-> {Rec("ERROR", "process_error", r, wf.path)}]
  ELSE IF HasMatch(wf.content)
  THEN LET updated_content == Replace(wf.content, SEARCH_STRING, REPLACE_STRING)
           sha == ShaForUpdate(r, wf, st)
           res == UpdateFile(r, wf.name, updated_content, sha, ref, upd, st)
           call == [repo |-> r, name |-> wf.name, path |-> wf.path, branch |-> ref,
                    message |-> CommitMessage, content |-> updated_content,
                    sha |-> sha, fetched |-> wf.content,
                    before |-> st[<<r, wf.name>>], ok |-> res.ok]
       IN [ret |-> res.ok, raised |-> ~res.ok, calls |-> <<call>>, stored |-> res.stored,
           log |-> {Rec("INFO", "found_match", r, wf.path),
                    IF res.ok THEN Rec("INFO", "updated", r, wf.path)
                    ELSE Rec("ERROR", "update_failed", r, wf.path)}]
  ELSE [ret |-> FALSE, raised |-> FALSE, calls |-> <<>>, stored |-> st,
        log |-> {Rec("INFO", "no_match", r, wf.path)}]

(***************************************************************************)
(* main(), one action per step of its loops.                               *)
(***************************************************************************)
Failed(out) == IF out = "ok" THEN 0 ELSE 1

RepoSeqs == {s \in UNION {[1..n -> RepoNames] : n \in 0..Cardinality(RepoNames)} :
               \A a, b \in 1..Len(s) : a # b => s[a] # s[b]}

\* the answers the two listings can give
Listings ==
  { [org |-> [status |-> os, repos |-> orepos],
     user |-> [status |-> us,
               repos |-> [k \in 1..Len(unames) |->
                            [full_name |-> unames[k], admin |-> unames[k] \in admins]]]] :
      os \in Outcomes, orepos \in RepoSeqs, us \in {"ok", "error"},
      unames \in RepoSeqs, admins \in SUBSET RepoNames }

\* a failed listing carries no repositories
WellFormed(lst) ==
  /\ lst.org.status # "ok" => lst.org.repos = <<>>
  /\ lst.user.status # "ok" => lst.user.repos = <<>>

\* lines 160-167: the enumeration and the statistics' initial values
DoEnumerate(lst, trace) ==
  LET e == get_organization_repositories(lst)
  IN /\ pc = "start"
     /\ WellFormed(lst)
     /\ failures + Failed(lst.org.status) + Failed(lst.user.status) <= MaxFailures
     /\ failures' = failures + Failed(lst.org.status) + Failed(lst.user.status)
     /\ repos' = e.repos
     /\ total_repos' = Len(e.repos)
     /\ repos_with_workflows' = 0
     /\ repos_updated' = 0
     /\ log' = log \cup e.log
     /\ listing' = trace
     /\ i' = 1
     /\ pc' = "repo"
     /\ UNCHANGED <<config, stored, original, branch, workflow_files, j, repo_updated,
                    calls, visited, passed, run, prevUpdated, extWrites>>

Enumerate == \E lst \in Listings : DoEnumerate(lst, NoListing)

\* the same step, keeping the listings' answers for inspection
EnumerateTraced == \E lst \in Listings : DoEnumerate(lst, lst)

\* lines 170-186 and 200-206: one repository, up to the file loop
VisitRepo ==
  /\ pc = "repo"
  /\ i <= Len(repos)
  /\ \E db \in {"ok", "error"}, hd \in Outcomes, gf \in Outcomes :
       LET r == repos[i]
           b == get_default_branch(r, db)
           d == has_workflow_directory(r, b.branch, hd, cfgPath, stored)
           g == IF d.result THEN get_workflow_files(r, b.branch, gf, cfgPath, stored)
                ELSE [files |-> <<>>, status |-> "none", log |-> {}]
           n == Failed(db) + Failed(hd) + Failed(gf)
       IN /\ ~d.result => gf = "ok"
          /\ failures + n <= MaxFailures
          /\ failures' = failures + n
          /\ branch' = b.branch
          /\ repos_with_workflows' = repos_with_workflows + (IF d.result THEN 1 ELSE 0)
          /\ log' = log \cup b.log \cup d.log \cup g.log
          /\ visited' = Append(visited,
                          [repo |-> r, root |-> d.status, dir |-> g.status,
                           has_dir |-> d.result,
                           files |-> [k \in 1..Len(g.files) |-> g.files[k].name]])
          /\ IF d.result
             THEN workflow_files' = g.files
             ELSE UNCHANGED workflow_files
          /\ IF g.files # <<>>
             THEN /\ pc' = "file"
                  /\ j' = 1
                  /\ repo_updated' = FALSE
                  /\ i' = i
             ELSE /\ pc' = "repo"
                  /\ i' = i + 1
                  /\ UNCHANGED <<j, repo_updated>>
  /\ UNCHANGED <<config, stored, original, repos, total_repos, repos_updated, calls,
                 passed, listing, run, prevUpdated, extWrites>>

\* an exception that leaves the file loop
NextFile_abort(pos, n, raised) == IF raised THEN n + 1 ELSE pos + 1

\* `for workflow_file in workflow_files`: the loop goes on to the next file
\* whatever update_workflow_file did with this one
NextFile(pos, n, raised) == pos + 1

\* lines 190-199: one file, and after the last one the repository's count
ProcessFile ==
  /\ pc = "file"
  /\ j <= Len(workflow_files)
  /\ \E pre \in {"ok", "error"}, upd \in {"ok", "error"} :
       LET r == repos[i]
           wf == workflow_files[j]
           u == update_workflow_file(r, wf, branch, pre, upd, stored)
           n == Failed(pre) + Failed(upd)
           updated == repo_updated \/ u.ret
           nj == NextFile(j, Len(workflow_files), u.raised)
       IN /\ u.calls = <<>> => upd = "ok"
          /\ failures + n <= MaxFailures
          /\ failures' = failures + n
          /\ stored' = u.stored
          /\ calls' = calls \o u.calls
          /\ passed' = Append(passed, [repo |-> r, name |-> wf.name,
                                       content |-> wf.content, ret |-> u.ret])
          /\ repo_updated' = updated
          /\ j' = nj
          /\ IF nj > Len(workflow_files)
             THEN /\ pc' = "repo"
                  /\ i' = i + 1
                  /\ repos_updated' = repos_updated + (IF updated THEN 1 ELSE 0)
                  /\ log' = log \cup u.log
                            \cup {Rec("INFO", IF updated THEN "repository_updated"
                                              ELSE "no_updates", r, <<>>)}
             ELSE /\ pc' = "file"
                  /\ i' = i
                  /\ repos_updated' = repos_updated
                  /\ log' = log \cup u.log
  /\ UNCHANGED <<config, original, repos, branch, workflow_files, total_repos,
                 repos_with_workflows, visited, listing, run, prevUpdated, extWrites>>

\* lines 208-213: after the last repository
Summary ==
  /\ pc = "repo"
  /\ i > Len(repos)
  /\ log' = log \cup {Rec("INFO", "summary", "", <<>>)}
  /\ pc' = "done"
  /\ UNCHANGED <<config, stored, original, repos, loopVars, counters, calls, visited,
                 passed, listing, failures, run, prevUpdated, extWrites>>

\* the script is started again after a run that wrote something: a new
\* process, the platform as it was left
Restart ==
  /\ pc = "done"
  /\ run < MaxRuns
  /\ \E c \in 1..Len(calls) : calls[c].ok
  /\ run' = run + 1
  /\ original' = stored
  /\ prevUpdated' = {<<calls[k].repo, calls[k].name>> : k \in {n \in 1..Len(calls) : calls[n].ok}}
  /\ pc' = "start"
  /\ repos' = <<>>
  /\ i' = 1
  /\ branch' = "main"
  /\ workflow_files' = <<>>
  /\ j' = 1
  /\ repo_updated' = FALSE
  /\ total_repos' = 0
  /\ repos_with_workflows' = 0
  /\ repos_updated' = 0
  /\ log' = {}
  /\ calls' = <<>>
  /\ visited' = <<>>
  /\ passed' = <<>>
  /\ listing' = NoListing
  /\ UNCHANGED <<config, stored, failures, extWrites>>

\* somebody else commits a new content of a file to the default branch
ExternalWrite ==
  /\ pc \in {"repo", "file"}
  /\ extWrites < MaxExternal
  /\ \E f \in WorkflowFiles, c \in ExternalContents :
       /\ c # stored[f]
       /\ stored' = [stored EXCEPT ![f] = c]
  /\ extWrites' = extWrites + 1
  /\ UNCHANGED <<config, original, pc, repos, loopVars, counters, log, calls, visited,
                 passed, listing, failures, run, prevUpdated>>

Next == Enumerate \/ VisitRepo \/ ProcessFile \/ Summary

Spec == Init /\ [][Next]_vars

\* either path, every file holding the example
InitFair == World(WorkflowPaths, {CREATE_PR}, {Example})

\* main() is one thread of control and every call it makes returns or raises:
\* a step that can be taken is taken
FairSpec == InitFair /\ [][Next]_vars /\ WF_vars(Next)

SpecPr == InitPr /\ [][Next]_vars

\* the script run again after it has finished
NextRerun == Enumerate \/ VisitRepo \/ ProcessFile \/ Summary \/ Restart

SpecRerun == InitFound /\ [][NextRerun]_vars

\* the script and writers other than the script
NextExt == Enumerate \/ VisitRepo \/ ProcessFile \/ Summary \/ ExternalWrite

SpecExt == InitExample /\ [][NextExt]_vars

\* the enumeration alone, its inputs kept
SpecRepos == Init /\ [][EnumerateTraced]_vars

(***************************************************************************)
(* Properties.                                                             *)
(***************************************************************************)
FileOf(rec) == <<rec.repo, rec.name>>

CallIdx == 1..Len(calls)
PassedIdx == 1..Len(passed)
VisitedIdx == 1..Len(visited)

\* the repository iterations that have run to their end
Finished == {k \in VisitedIdx : k < i}

IsWorkflowName(name) == \E suf \in WorkflowSuffixes : EndsWith(name, suf)

UsesOld == <<"u", "s", "e", "s", ":", " ">> \o SEARCH_STRING
UsesNew == <<"u", "s", "e", "s", ":", " ">> \o REPLACE_STRING

\* C1: when main() has completed and no API call has failed, every .yml/.yaml
\* file directly under the configured path of an enumerated repository that
\* held "uses: <SEARCH_STRING>" holds "uses: <REPLACE_STRING>", and an update
\* call was made for it whose message contains both strings.
C1_EndToEnd ==
  (pc = "done" /\ failures = 0) =>
    \A k \in 1..Len(repos), f \in Files :
      (f[1] = repos[k] /\ IsWorkflowName(f[2]) /\ Contains(original[f], UsesOld)) =>
        /\ Contains(stored[f], UsesNew)
        /\ \E c \in CallIdx :
             /\ FileOf(calls[c]) = f
             /\ Contains(calls[c].message, SEARCH_STRING)
             /\ Contains(calls[c].message, REPLACE_STRING)

\* C2: with CREATE_PR switched on, no update call is issued against the
\* default branch of the repository.
C2_PrModeNeverWritesDefault ==
  cfgCreatePr => \A c \in CallIdx : calls[c].branch # DefaultBranch[calls[c].repo]

\* C3: a file handed to update_workflow_file whose content does not contain
\* SEARCH_STRING gets no update call, its stored content is what was fetched
\* and what the run started with, update_workflow_file returns False for it,
\* and a repository all of whose files are such is not reported as updated.
C3_NoMatchNoWrite ==
  /\ \A k \in PassedIdx :
       ~Contains(passed[k].content, SEARCH_STRING) =>
         /\ \A c \in CallIdx : FileOf(calls[c]) # FileOf(passed[k])
         /\ stored[FileOf(passed[k])] = passed[k].content
         /\ original[FileOf(passed[k])] = passed[k].content
         /\ ~passed[k].ret
  /\ \A v \in Finished :
       (\A k \in PassedIdx :
          passed[k].repo = visited[v].repo => ~Contains(passed[k].content, SEARCH_STRING))
       => Rec("INFO", "repository_updated", visited[v].repo, <<>>) \notin log

C3_Witness ==
  /\ pc = "done"
  /\ \E k \in PassedIdx :
       /\ ~Contains(passed[k].content, SEARCH_STRING)
       /\ passed[k].content # <<>>
       /\ Rec("INFO", "no_updates", passed[k].repo, <<>>) \in log

\* the places where SEARCH_STRING occurs in s
Occ(s) == {p \in 1..(Len(s) - Len(SEARCH_STRING) + 1) : MatchAt(s, SEARCH_STRING, p)}

\* out is s with each occurrence of SEARCH_STRING exchanged for REPLACE_STRING
\* and every character outside the occurrences kept, in order
ReplacedExactly(s, out) ==
  LET occ == Occ(s)
      d == Len(REPLACE_STRING) - Len(SEARCH_STRING)
      shift(p) == Cardinality({o \in occ : o < p}) * d
  IN /\ Len(out) = Len(s) + Cardinality(occ) * d
     /\ \A o \in occ :
          SubSeq(out, o + shift(o), o + shift(o) + Len(REPLACE_STRING) - 1) = REPLACE_STRING
     /\ \A p \in 1..Len(s) :
          (\A o \in occ : p < o \/ p >= o + Len(SEARCH_STRING)) => out[p + shift(p)] = s[p]

\* C4: the content given to an update call is the fetched content, which
\* contains SEARCH_STRING, with every occurrence replaced by REPLACE_STRING and
\* nothing else changed, and it does not contain SEARCH_STRING.
C4_EveryOccurrenceReplaced ==
  \A c \in CallIdx :
    /\ Occ(calls[c].fetched) # {}
    /\ ReplacedExactly(calls[c].fetched, calls[c].content)
    /\ ~Contains(calls[c].content, SEARCH_STRING)

C4_Witness ==
  \E c \in CallIdx :
    /\ Cardinality(Occ(calls[c].fetched)) >= 2
    /\ calls[c].ok
    /\ stored[FileOf(calls[c])] = calls[c].content

\* C5: the substitution applied to a content it produced returns it unchanged,
\* and a run that follows another one issues no update call for, and finds no
\* match in, a file the earlier run wrote successfully.
C5_Idempotent ==
  /\ \A c \in CallIdx :
       Replace(calls[c].content, SEARCH_STRING, REPLACE_STRING) = calls[c].content
  /\ run > 1 =>
       /\ \A c \in CallIdx : FileOf(calls[c]) \notin prevUpdated
       /\ \A k \in PassedIdx :
            FileOf(passed[k]) \in prevUpdated =>
              /\ ~Contains(passed[k].content, SEARCH_STRING)
              /\ Rec("INFO", "found_match", passed[k].repo,
                     cfgPath \o <<"/">> \o passed[k].name) \notin log

C5_Witness ==
  /\ run = 2
  /\ pc = "done"
  /\ \E k \in PassedIdx :
       /\ FileOf(passed[k]) \in prevUpdated
       /\ Rec("INFO", "no_match", passed[k].repo, cfgPath \o <<"/">> \o passed[k].name) \in log

\* C6: with other writers around, an update call changes nothing but its own
\* file, changes that file only if its stored content at that moment contains
\* SEARCH_STRING, and a call for a file whose stored content is no longer the
\* fetched one is rejected and leaves the stored content as it is.
C6_WriteOnlyIfUnchanged ==
  [][calls' # calls =>
       LET c == calls'[Len(calls')]
           f == FileOf(c)
       IN /\ \A g \in Files \ {f} : stored'[g] = stored[g]
          /\ stored'[f] # stored[f] => Contains(stored[f], SEARCH_STRING)
          /\ c.fetched # stored[f] => (~c.ok /\ stored'[f] = stored[f])]_vars

C6_Witness ==
  \E c \in CallIdx :
    /\ calls[c].fetched # calls[c].before
    /\ ~calls[c].ok
    /\ stored[FileOf(calls[c])] = calls[c].before
    /\ ~Contains(calls[c].before, SEARCH_STRING)

NoDuplicates(s) == \A a, b \in 1..Len(s) : a # b => s[a] # s[b]

\* C7: a listing that fails counts as empty for that source only: without the
\* organization's listing the result is the user's admin repositories, without
\* the user's listing it is the organization's repositories, and no full name
\* occurs twice in the result.
C7_SourceFailureIsLocal ==
  (pc = "repo" /\ listing # NoListing) =>
    /\ (listing.org.status # "ok" /\ listing.user.status = "ok")
         => repos = AdminRepos(listing.user.repos)
    /\ (listing.user.status # "ok" /\ listing.org.status = "ok")
         => repos = listing.org.repos
    /\ NoDuplicates(repos)

\* C8: a repository whose root listing or discovery path answers 404 has no
\* discovered file and no update call, the 404 is logged at INFO and not at
\* ERROR, and the loop goes on: at the end every repository has been visited.
C8_NotFoundIsNotAnError ==
  \A v \in VisitedIdx :
    (visited[v].root = "404" \/ visited[v].dir = "404") =>
      LET r == visited[v].repo
          msg == IF visited[v].root = "404" THEN "directory_failed" ELSE "files_failed"
      IN /\ visited[v].files = <<>>
         /\ Rec("INFO", msg, r, <<>>) \in log
         /\ \A rec \in log :
              (rec.repo = r /\ rec.msg \in {"directory_failed", "files_failed"})
                => rec.level = "INFO"
         /\ \A c \in CallIdx : calls[c].repo # r
         /\ v < i
         /\ pc = "done" => Len(visited) = Len(repos)

C8_Witness ==
  /\ pc = "done"
  /\ \E v, w \in VisitedIdx :
       /\ v < w
       /\ visited[v].dir = "404"
       /\ \E c \in CallIdx : calls[c].repo = visited[w].repo /\ calls[c].ok

\* the files found, repository after repository
RECURSIVE Discovered(_)
Discovered(vs) ==
  IF vs = <<>> THEN <<>>
  ELSE LET v == vs[Len(vs)]
       IN Discovered(SubSeq(vs, 1, Len(vs) - 1))
            \o [k \in 1..Len(v.files) |-> <<v.repo, v.files[k]>>]

C9_Safety ==
  LET found == Discovered(visited)
  IN /\ Len(visited) <= Len(repos)
     /\ \A v \in VisitedIdx : visited[v].repo = repos[v]
     /\ Len(passed) <= Len(found)
     /\ \A k \in PassedIdx : FileOf(passed[k]) = found[k]
     /\ pc = "done" =>
          /\ Len(visited) = Len(repos)
          /\ Len(passed) = Len(found)
          /\ Rec("INFO", "summary", "", <<>>) \in log

\* C9: whatever fails, the repositories are visited in the order of the
\* enumeration, the files found are handed to update_workflow_file in order,
\* when main() ends every repository has been visited and every file found
\* has been handed over, and main() does end with the summary.
C9_Isolation == [](C9_Safety) /\ <>(pc = "done")

C9_Witness ==
  /\ pc = "done"
  /\ \E a, b \in PassedIdx :
       /\ a < b
       /\ passed[a].repo = passed[b].repo
       /\ \E rec \in log :
            /\ rec.level = "ERROR"
            /\ rec.repo = passed[a].repo
            /\ rec.path = cfgPath \o <<"/">> \o passed[a].name
       /\ passed[b].ret
  /\ \E v \in VisitedIdx : visited[v].root = "error"

\* C10: no file gets two update calls in a run; a failed call is logged as an
\* error and makes update_workflow_file return False; and the repositories
\* counted as updated are those with a successful call.
C10_NoRetry ==
  /\ \A a, b \in CallIdx : a # b => FileOf(calls[a]) # FileOf(calls[b])
  /\ \A c \in CallIdx :
       ~calls[c].ok =>
         /\ Rec("ERROR", "update_failed", calls[c].repo, calls[c].path) \in log
         /\ \A k \in PassedIdx : FileOf(passed[k]) = FileOf(calls[c]) => ~passed[k].ret
  /\ repos_updated =
       Cardinality({v \in Finished :
                      \E c \in CallIdx : calls[c].repo = visited[v].repo /\ calls[c].ok})

C10_Witness ==
  /\ pc = "done"
  /\ repos_updated = 1
  /\ \E a, b \in CallIdx :
       /\ calls[a].repo = calls[b].repo
       /\ ~calls[a].ok
       /\ calls[b].ok
====
